---------------------------- MODULE Spec2Model ----------------------------
(***************************************************************************)
(* Model of src/app.py: the credit score prediction Lambda.                *)
(*                                                                         *)
(*   prepare_payload / _normalise_value   the feature normaliser           *)
(*   write_real_data_to_s3                the per-day CSV audit log        *)
(*   publish_metrics                      the CloudWatch calls             *)
(*   handler                              the Lambda entry point           *)
(*                                                                         *)
(* Text (a Python str, the body of an S3 object) is a sequence of          *)
(* characters, each a one-character string.  A dict is the sequence of its *)
(* (key, value) pairs in insertion order, keys distinct.  Keys are strings *)
(* that hold no line break and no comma; values may hold both.             *)
(***************************************************************************)
EXTENDS Integers, Sequences, FiniteSets, TLC

\* ------------------------------------------------------------------ bounds

\* Longest str value drawn for an input.
MaxStrLen == 2
\* Most FEATURE_ORDER keys left out of one input record.
MaxMissing == 1
\* Concurrent callers of write_real_data_to_s3 (Lambda execution environments).
NumWriters == 2
\* Events one execution environment handles, one after the other.
MaxEvents == 2

\* --------------------------------------------------------------- characters

LF == "\n"
CR == "\r"
COMMA == ","
DOT == "."

\* str.splitlines() breaks a line at each of these (and at "\r\n" as one break).
LineBreaks == {LF, CR}
\* str.strip(), which int() and float() apply, removes these at both ends.
Whitespace == {LF, CR, " "}
DigitChars == {"0", "1", "2", "3", "4", "5", "6", "7", "8", "9"}

DigitVal(c) ==
    CASE c = "0" -> 0 [] c = "1" -> 1 [] c = "2" -> 2 [] c = "3" -> 3
      [] c = "4" -> 4 [] c = "5" -> 5 [] c = "6" -> 6 [] c = "7" -> 7
      [] c = "8" -> 8 [] c = "9" -> 9

DigitChar(d) == <<"0", "1", "2", "3", "4", "5", "6", "7", "8", "9">>[d + 1]

\* ------------------------------------------------------------ Python values

PyInt(n) == [t |-> "int", v |-> n]
\* The float m / 10^k, with k = 0 or m not a multiple of 10.
PyFloat(m, k) == [t |-> "float", m |-> m, k |-> k]
PyStr(s) == [t |-> "str", s |-> s]
PyNone == [t |-> "NoneType"]

IsStr(value) == value.t = "str"

\* An exception: its class and the parts of its message.
Raise(cls, msg) == [raised |-> TRUE, cls |-> cls, msg |-> msg]
Return(value) == [raised |-> FALSE, value |-> value]

\* ------------------------------------------------------------------- dicts

Keys(d) == [i \in 1..Len(d) |-> d[i][1]]
Values(d) == [i \in 1..Len(d) |-> d[i][2]]
HasKey(d, key) == \E i \in 1..Len(d) : d[i][1] = key
GetItem(d, key) == d[CHOOSE i \in 1..Len(d) : d[i][1] = key][2]
\* d[key] = value: an existing key keeps its place, a new key goes last.
SetItem(d, key, value) ==
    IF HasKey(d, key)
    THEN [i \in 1..Len(d) |-> IF d[i][1] = key THEN <<key, value>> ELSE d[i]]
    ELSE Append(d, <<key, value>>)

\* -------------------------------------------------------------------- text

\* sep.join(parts), each part a text.
RECURSIVE Join(_, _)
Join(sep, parts) ==
    IF Len(parts) = 0 THEN <<>>
    ELSE IF Len(parts) = 1 THEN parts[1]
    ELSE parts[1] \o <<sep>> \o Join(sep, Tail(parts))

\* str.splitlines(): the lines of a text without their line breaks; a break
\* that ends the text opens no further line, and "\r\n" is one break.
RECURSIVE LinesFrom(_, _)
LinesFrom(text, i) ==
    IF i > Len(text) THEN <<>>
    ELSE LET breaks == {j \in i..Len(text) : text[j] \in LineBreaks} IN
         IF breaks = {} THEN <<SubSeq(text, i, Len(text))>>
         ELSE LET b == CHOOSE j \in breaks : \A k \in breaks : j <= k
                  next == IF text[b] = CR /\ b < Len(text) /\ text[b + 1] = LF
                          THEN b + 2 ELSE b + 1
              IN  <<SubSeq(text, i, b - 1)>> \o LinesFrom(text, next)

splitlines(text) == LinesFrom(text, 1)

\* str.strip()
RECURSIVE LStrip(_)
LStrip(s) == IF Len(s) > 0 /\ s[1] \in Whitespace THEN LStrip(Tail(s)) ELSE s

RECURSIVE RStrip(_)
RStrip(s) ==
    IF Len(s) > 0 /\ s[Len(s)] \in Whitespace
    THEN RStrip(SubSeq(s, 1, Len(s) - 1)) ELSE s

Strip(s) == RStrip(LStrip(s))

\* repr() of a str, as it stands in the message of a ValueError.
ReprChar(c) ==
    CASE c = LF -> <<"\\", "n">> [] c = CR -> <<"\\", "r">> [] OTHER -> <<c>>

RECURSIVE ReprBody(_)
ReprBody(s) == IF Len(s) = 0 THEN <<>> ELSE ReprChar(s[1]) \o ReprBody(Tail(s))

Repr(s) == <<"'">> \o ReprBody(s) \o <<"'">>

\* The number a run of decimal digits writes.
RECURSIVE DigitsValue(_)
DigitsValue(s) ==
    IF Len(s) = 0 THEN 0
    ELSE 10 * DigitsValue(SubSeq(s, 1, Len(s) - 1)) + DigitVal(s[Len(s)])

AllDigits(s) == \A i \in 1..Len(s) : s[i] \in DigitChars

\* The decimal digits of a natural number: str(n).
RECURSIVE IntText(_)
IntText(n) ==
    IF n < 10 THEN <<DigitChar(n)>>
    ELSE Append(IntText(n \div 10), DigitChar(n % 10))

RECURSIVE NormFloat(_, _)
NormFloat(m, k) ==
    IF k > 0 /\ m % 10 = 0 THEN NormFloat(m \div 10, k - 1) ELSE PyFloat(m, k)

RECURSIVE Pow10(_)
Pow10(k) == IF k = 0 THEN 1 ELSE 10 * Pow10(k - 1)

RECURSIVE ZeroPad(_, _)
ZeroPad(s, width) == IF Len(s) >= width THEN s ELSE ZeroPad(<<"0">> \o s, width)

\* repr() of the float m / 10^k: positional while its decimal exponent is at
\* least -4, "d.ddde-XX" below that.
FloatText(m, k) ==
    LET digits == IntText(m)
        exp == Len(digits) - 1 - k
    IN  IF k = 0 THEN digits \o <<DOT, "0">>
        ELSE IF m = 0 \/ exp >= -4
        THEN IntText(m \div Pow10(k)) \o <<DOT>> \o ZeroPad(IntText(m % Pow10(k)), k)
        ELSE <<digits[1]>>
             \o (IF Len(digits) > 1 THEN <<DOT>> \o Tail(digits) ELSE <<>>)
             \o <<"e", "-">> \o ZeroPad(IntText(0 - exp), 2)

\* str(value)
StrOf(value) ==
    CASE value.t = "str" -> value.s
      [] value.t = "int" -> IntText(value.v)
      [] value.t = "float" -> FloatText(value.m, value.k)
      [] value.t = "NoneType" -> <<"N", "o", "n", "e">>

\* int(s) of a str: surrounding whitespace dropped, then decimal digits only
\* (the input alphabet holds no sign, underscore or exponent character).
int(s) ==
    LET body == Strip(s)
    IN  IF Len(body) > 0 /\ AllDigits(body)
        THEN Return(PyInt(DigitsValue(body)))
        ELSE Raise("ValueError",
                   <<"invalid literal for int() with base 10: ">> \o Repr(s))

\* float(s) of a str: surrounding whitespace dropped, then digits with at most
\* one point and at least one digit.
float(s) ==
    LET body == Strip(s)
        dots == {i \in 1..Len(body) : body[i] = DOT}
        p == IF dots = {} THEN Len(body) + 1 ELSE CHOOSE i \in dots : TRUE
        whole == SubSeq(body, 1, p - 1)
        frac == SubSeq(body, p + 1, Len(body))
    IN  IF Cardinality(dots) <= 1 /\ AllDigits(whole) /\ AllDigits(frac)
           /\ Len(whole) + Len(frac) > 0
        THEN Return(NormFloat(DigitsValue(whole \o frac), Len(frac)))
        ELSE Raise("ValueError", <<"could not convert string to float: ">> \o Repr(s))

\* float(x) of a number, as handler applies it to the model's output.
ToFloat(x) ==
    CASE x.t = "float" -> Return(x)
      [] x.t = "int" -> Return(PyFloat(x.v, 0))
      [] x.t = "str" -> float(x.s)
      [] OTHER -> Raise("TypeError",
                        <<"float() argument must be a string or a real number">>)

\* ------------------------------------------------------- feature normaliser

FEATURE_ORDER ==
    << "Age", "Annual_Income", "Num_Bank_Accounts", "Num_Credit_Card",
       "Num_of_Delayed_Payment", "Credit_Utilization_Ratio",
       "Payment_of_Min_Amount", "Total_EMI_per_month",
       "Credit_History_Age_Formated", "Auto_Loan", "Credit-Builder_Loan",
       "Personal_Loan", "Home_Equity_Loan", "Mortgage_Loan", "Student_Loan",
       "Debt_Consolidation_Loan", "Payday_Loan", "Missed_Payment_Day" >>

PyDict(items) == [t |-> "dict", items |-> items]

HasDot(s) == \E i \in 1..Len(s) : s[i] = DOT

\* _normalise_value without its test for ".": every str goes to int().
NormaliseIntOnly(value) ==
    IF IsStr(value) THEN int(value.s) ELSE Return(value)

_normalise_value(value) ==
    IF IsStr(value)
    THEN (IF HasDot(value.s) THEN float(value.s) ELSE int(value.s))
    ELSE Return(value)

MissingFeature(key) ==
    Raise("ValueError", <<"Feature '", key, "' missing from payload.">>)

\* `key not in data` and `data[key]` of a value that is no dict.
NotADict(data) ==
    Raise("TypeError", <<"argument of type '", data.t, "' is not iterable">>)

\* The loop of prepare_payload with data.get(key, 0) in place of the test.
RECURSIVE PrepareWithDefault(_, _, _)
PrepareWithDefault(items, i, processed) ==
    IF i > Len(FEATURE_ORDER) THEN Return(processed)
    ELSE LET key == FEATURE_ORDER[i]
             n == IF HasKey(items, key)
                  THEN _normalise_value(GetItem(items, key))
                  ELSE Return(PyInt(0))
         IN  IF n.raised THEN n
             ELSE PrepareWithDefault(items, i + 1, Append(processed, n.value))

\* The loop of prepare_payload from FEATURE_ORDER[i] on.
RECURSIVE PrepareFrom(_, _, _)
PrepareFrom(items, i, processed) ==
    IF i > Len(FEATURE_ORDER) THEN Return(processed)
    ELSE LET key == FEATURE_ORDER[i] IN
         IF ~HasKey(items, key) THEN MissingFeature(key)
         ELSE LET n == _normalise_value(GetItem(items, key)) IN
              IF n.raised THEN n
              ELSE PrepareFrom(items, i + 1, Append(processed, n.value))

prepare_payload(data) ==
    IF data.t = "dict" THEN PrepareFrom(data.items, 1, <<>>) ELSE NotADict(data)

\* ------------------------------------------------------------------ inputs

\* The characters of the str values drawn as inputs.
InputChars == {"0", "1", DOT, "x", LF}

InputStrings == UNION {[1..n -> InputChars] : n \in 0..MaxStrLen}

InputValues ==
    {PyStr(s) : s \in InputStrings}
        \cup {PyInt(30), PyFloat(4339196, 2), PyNone}

Positions == 1..Len(FEATURE_ORDER)

Forward == [i \in Positions |-> i]
Reversed == [i \in Positions |-> Len(FEATURE_ORDER) + 1 - i]

\* The record holding FEATURE_ORDER's keys in the order `perm`, without the
\* keys at the positions `missing`; the key at position p holds v, every other
\* key the number of its own position.
RecordOf(perm, missing, p, v) ==
    LET all == [j \in Positions |->
                   <<FEATURE_ORDER[perm[j]],
                     IF perm[j] = p THEN v ELSE PyInt(perm[j])>>]
        Kept(item) == \A m \in missing : FEATURE_ORDER[m] # item[1]
    IN  SelectSeq(all, Kept)

\* The sets of at most n positions.
RECURSIVE SetsUpTo(_)
SetsUpTo(n) ==
    IF n = 0 THEN {{}}
    ELSE LET smaller == SetsUpTo(n - 1)
         IN  smaller \cup {m \cup {i} : m \in smaller, i \in Positions}

\* The positions whose value is drawn: the first two features and the last.
Probes == {1, 2, Len(FEATURE_ORDER)}

\* An extra key, which the model is not trained on.
Extra == <<"note", PyStr(<<"x">>)>>

\* --------------------------------------------------------------- audit log

S3_KEYS == <<"credit_score_prediction", "timestamp", "model_version">>

\* model/model_metadata.json, loaded once at the cold start.
MODEL_INFO == [version |-> PyStr(<<"1.0.0">>)]

\* now.strftime("%d-%m-%Y %H:%M") of the calls of one day, in the order of the
\* clock: text without a line break or a comma.
Minutes == <<"05-11-2026 19:26", "05-11-2026 19:27">>
Timestamps == {Minutes[i] : i \in DOMAIN Minutes}
MinuteOf(timestamp) == CHOOSE i \in DOMAIN Minutes : Minutes[i] = timestamp

\* enriched = {**data, "credit_score_prediction": ..., "timestamp": ...,
\*             "model_version": ...}
Enrich(items, pred, timestamp) ==
    SetItem(SetItem(SetItem(items, "credit_score_prediction", pred),
                    "timestamp", PyStr(<<timestamp>>)),
            "model_version", MODEL_INFO.version)

\* The clock does not run backwards: `timestamp` is not before the one in the
\* enriched record of the call that started last.
NotBefore(last, timestamp) ==
    IF HasKey(last, "timestamp")
    THEN MinuteOf(GetItem(last, "timestamp").s[1]) <= MinuteOf(timestamp)
    ELSE TRUE

\* ",".join(enriched.keys())
HeaderOf(items) == Join(COMMA, [i \in 1..Len(items) |-> <<Keys(items)[i]>>])

\* ",".join(map(str, enriched.values()))
RowOf(items) == Join(COMMA, [i \in 1..Len(items) |-> StrOf(Values(items)[i])])

\* "\n".join([header, *rows])
ContentOf(hdr, rws) == Join(LF, <<hdr>> \o rws)

\* The object of the day in the bucket: absent, or its body.
NoObject == [exists |-> FALSE, body |-> <<>>]
Object(body) == [exists |-> TRUE, body |-> body]

EmptyFile == Raise("ValueError", <<"Empty file retrieved from S3">>)
ClientError(op) == Raise("ClientError", <<"An error occurred when calling ", op>>)
NoError == [raised |-> FALSE]

\* Lines 122-129 with an object without lines taken for a missing one.
FetchedLenient(obj, items) ==
    IF obj.exists /\ Len(splitlines(obj.body)) > 0
    THEN Return([header |-> Head(splitlines(obj.body)),
                 rows |-> Tail(splitlines(obj.body))])
    ELSE Return([header |-> HeaderOf(items), rows |-> <<>>])

\* What lines 122-129 leave in (header, rows) after get_object answered with
\* `obj`: the first line and the others of an existing object, a new header
\* and no rows when S3 reports NoSuchKey, ValueError for an object without lines.
Fetched(obj, items) ==
    IF obj.exists
    THEN LET existing_lines == splitlines(obj.body) IN
         IF Len(existing_lines) = 0 THEN EmptyFile
         ELSE Return([header |-> Head(existing_lines), rows |-> Tail(existing_lines)])
    ELSE Return([header |-> HeaderOf(items), rows |-> <<>>])

\* Lines 131-132: the content put_object is given.
NewContent(hdr, rws, items) == ContentOf(hdr, Append(rws, RowOf(items)))

\* ------------------------------------------------------------------- state

VARIABLES
    \* prepare_payload called on its own
    data,        \* its argument
    result,      \* what it returned or raised
    npc,         \* "ready" before the call, "done" after it
    \* write_real_data_to_s3, one call per writer
    object,      \* the object of the day in the bucket
    wpc,         \* per writer: "idle", "get", "put", "done", "raised"
    wdata,       \* per writer: the data argument
    enriched,    \* per writer: the local `enriched`
    header,      \* per writer: the local `header`
    rows,        \* per writer: the local `rows`
    werr,        \* per writer: the exception the call raised
    seen,        \* per writer: what get_object answered (history)
    putLog,      \* the successful put_object calls, in order (history)
    \* handler
    event,       \* the event of the invocation
    hpc,         \* where the invocation stands
    payload,     \* the local `payload`
    features,    \* the local `features`
    output,      \* what MODEL.predict answered (history)
    prediction,  \* the local `prediction`
    sent,        \* put_metric_data calls publish_metrics has made
    response,    \* what handler returned
    failure,     \* the exception raised in the invocation
    failedAt,    \* the step that raised it
    steps,       \* the steps of the invocation, in order (history)
    served       \* events handled so far

normVars == <<data, result, npc>>
logVars == <<object, wpc, wdata, enriched, header, rows, werr, seen, putLog>>
handlerVars == <<event, hpc, payload, features, output, prediction, sent, response,
                 failure, failedAt, steps, served>>
vars == <<normVars, logVars, handlerVars>>

Writers == 1..NumWriters

NotFetched == [fetched |-> FALSE, obj |-> NoObject]
NoResponse == [statusCode |-> 0, body |-> <<>>]
NoEvent == [shape |-> "none", kind |-> "none", has_data |-> FALSE, data |-> PyNone]

NormIdle == data = PyNone /\ result = NoError /\ npc = "off"

LogIdle(obj) ==
    /\ object = obj
    /\ wpc = [w \in Writers |-> "idle"]
    /\ wdata = [w \in Writers |-> <<>>]
    /\ enriched = [w \in Writers |-> <<>>]
    /\ header = [w \in Writers |-> <<>>]
    /\ rows = [w \in Writers |-> <<>>]
    /\ werr = [w \in Writers |-> NoError]
    /\ seen = [w \in Writers |-> NotFetched]
    /\ putLog = <<>>

HandlerIdle(pc) ==
    /\ event = NoEvent
    /\ hpc = pc
    /\ payload = PyNone
    /\ features = <<>>
    /\ output = <<>>
    /\ prediction = PyNone
    /\ sent = 0
    /\ response = NoResponse
    /\ failure = NoError
    /\ failedAt = "none"
    /\ steps = <<>>
    /\ served = 0

\* ---------------------------------------------- prepare_payload on its own

\* The argument: a record in FEATURE_ORDER's order or the reverse, or behind an
\* extra key; the empty record; None.
InitNorm ==
    /\ \/ \E missing \in SetsUpTo(MaxMissing), p \in Probes, v \in InputValues :
             \/ data = PyDict(RecordOf(Forward, missing, p, v))
             \/ data = PyDict(RecordOf(Reversed, missing, p, v))
             \/ data = PyDict(<<Extra>> \o RecordOf(Forward, missing, p, v))
       \/ data = PyDict(<<>>)
       \/ data = PyNone
    /\ result = NoError
    /\ npc = "ready"
    /\ LogIdle(NoObject)
    /\ HandlerIdle("off")

PreparePayload ==
    /\ npc = "ready"
    /\ result' = prepare_payload(data)
    /\ npc' = "done"
    /\ UNCHANGED <<data, logVars, handlerVars>>

NextNorm == PreparePayload

SpecNorm == InitNorm /\ [][NextNorm]_vars

\* -------------------------------------------- write_real_data_to_s3, racing

Age30 == <<"Age", PyInt(30)>>

\* The data arguments of the racing calls: the same keys in two orders, a
\* value that holds a line break, and a key the enriched record sets itself.
LogInputs ==
    { <<Age30>>,
      <<Age30, <<"note", PyStr(<<"x">>)>>>>,
      <<<<"note", PyStr(<<"x">>)>>, Age30>>,
      <<Age30, <<"note", PyStr(<<"a", LF, "b">>)>>>>,
      <<<<"timestamp", PyStr(<<"x">>)>>, Age30>> }

LogPrediction == PyFloat(6505, 1)

\* The object of the day before the first call: none, one without content, one
\* earlier calls wrote, and that one saved again with a final line break.
EarlierLog ==
    ContentOf(HeaderOf(Enrich(<<Age30>>, LogPrediction, "05-11-2026 19:25")),
              <<RowOf(Enrich(<<Age30>>, LogPrediction, "05-11-2026 19:25"))>>)

InitialObjects ==
    {NoObject, Object(<<>>), Object(EarlierLog), Object(Append(EarlierLog, LF))}

\* Lines 109-119: the call starts and builds `enriched`.
StartWrite(w, items, pred, timestamp) ==
    /\ wpc[w] = "idle"
    /\ wpc' = [wpc EXCEPT ![w] = "get"]
    /\ wdata' = [wdata EXCEPT ![w] = items]
    /\ enriched' = [enriched EXCEPT ![w] = Enrich(items, pred, timestamp)]
    /\ UNCHANGED <<object, header, rows, werr, seen, putLog>>

\* Lines 122-129: get_object answers with the object or with NoSuchKey.
GetObject(w) ==
    /\ wpc[w] = "get"
    /\ seen' = [seen EXCEPT ![w] = [fetched |-> TRUE, obj |-> object]]
    /\ LET f == Fetched(object, enriched[w]) IN
       IF f.raised
       THEN /\ wpc' = [wpc EXCEPT ![w] = "raised"]
            /\ werr' = [werr EXCEPT ![w] = f]
            /\ UNCHANGED <<header, rows>>
       ELSE /\ wpc' = [wpc EXCEPT ![w] = "put"]
            /\ header' = [header EXCEPT ![w] = f.value.header]
            /\ rows' = [rows EXCEPT ![w] = f.value.rows]
            /\ UNCHANGED werr
    /\ UNCHANGED <<object, wdata, enriched, putLog>>

\* Line 123: get_object fails with another error than NoSuchKey.
GetObjectFails(w) ==
    /\ wpc[w] = "get"
    /\ wpc' = [wpc EXCEPT ![w] = "raised"]
    /\ werr' = [werr EXCEPT ![w] = ClientError("GetObject")]
    /\ UNCHANGED <<object, wdata, enriched, header, rows, seen, putLog>>

\* Lines 131-134: the row is appended and put_object replaces the object.
PutObject(w) ==
    /\ wpc[w] = "put"
    /\ rows' = [rows EXCEPT ![w] = Append(rows[w], RowOf(enriched[w]))]
    /\ object' = Object(NewContent(header[w], rows[w], enriched[w]))
    /\ putLog' = Append(putLog, [w |-> w, before |-> object, seen |-> seen[w].obj,
                                 data |-> wdata[w], enriched |-> enriched[w],
                                 after |-> object'])
    /\ wpc' = [wpc EXCEPT ![w] = "done"]
    /\ UNCHANGED <<wdata, enriched, header, werr, seen>>

\* Line 134: put_object fails.
PutObjectFails(w) ==
    /\ wpc[w] = "put"
    /\ rows' = [rows EXCEPT ![w] = Append(rows[w], RowOf(enriched[w]))]
    /\ wpc' = [wpc EXCEPT ![w] = "raised"]
    /\ werr' = [werr EXCEPT ![w] = ClientError("PutObject")]
    /\ UNCHANGED <<object, wdata, enriched, header, seen, putLog>>

InitLog ==
    /\ NormIdle
    /\ \E obj \in InitialObjects : LogIdle(obj)
    /\ HandlerIdle("off")

\* The writers are numbered in the order in which their calls start.
Call(w) ==
    /\ \A v \in Writers : v < w => wpc[v] # "idle"
    /\ \E items \in LogInputs, timestamp \in Timestamps :
          /\ w > 1 => NotBefore(enriched[w - 1], timestamp)
          /\ StartWrite(w, items, LogPrediction, timestamp)
    /\ UNCHANGED <<normVars, handlerVars>>

Get(w) == GetObject(w) /\ UNCHANGED <<normVars, handlerVars>>
GetFails(w) == GetObjectFails(w) /\ UNCHANGED <<normVars, handlerVars>>
Put(w) == PutObject(w) /\ UNCHANGED <<normVars, handlerVars>>
PutFails(w) == PutObjectFails(w) /\ UNCHANGED <<normVars, handlerVars>>

NextLog ==
    \E w \in Writers :
        Call(w) \/ Get(w) \/ GetFails(w) \/ Put(w) \/ PutFails(w)

SpecLog == InitLog /\ [][NextLog]_vars

\* ----------------------------------------------------------------- handler

\* A record with every FEATURE_ORDER key, numbers only.
Full == RecordOf(Forward, {}, 1, PyInt(30))

\* The data records of the events: numbers, numbers written as str, the keys
\* in reverse, an extra key whose value holds a line break, None for a
\* feature, a feature that is no number, a feature left out, no feature.
EventData ==
    { PyDict(Full),
      PyDict(RecordOf(Forward, {}, 2, PyStr(<<"1", DOT, "5">>))),
      PyDict(RecordOf(Reversed, {}, 1, PyStr(<<"3", "0">>))),
      PyDict(Append(Full, <<"note", PyStr(<<"a", LF, "b">>)>>)),
      PyDict(RecordOf(Forward, {}, 3, PyNone)),
      PyDict(RecordOf(Forward, {}, 1, PyStr(<<"x">>))),
      PyDict(RecordOf(Forward, {2}, 1, PyInt(30))),
      PyDict(<<>>),
      PyNone }

DirectEvent(has_data, d) ==
    [shape |-> "direct", kind |-> "none", has_data |-> has_data, data |-> d]
\* {"body": ...}: `kind` is what the body holds: the text of a JSON object, of a
\* JSON array, text that is no JSON, or None in place of text.
GatewayEvent(kind, has_data, d) ==
    [shape |-> "gateway", kind |-> kind, has_data |-> has_data, data |-> d]

Events ==
    {DirectEvent(TRUE, d) : d \in EventData}
        \cup {DirectEvent(FALSE, PyNone)}
        \cup {GatewayEvent("object", TRUE, PyDict(Full)),
              GatewayEvent("object", FALSE, PyNone),
              GatewayEvent("array", FALSE, PyNone),
              GatewayEvent("invalid", FALSE, PyNone),
              GatewayEvent("None", FALSE, PyNone)}

\* json.loads(event["body"])
json_loads(ev) ==
    CASE ev.kind = "object" ->
            Return([t |-> "dict", has_data |-> ev.has_data, data |-> ev.data])
      [] ev.kind = "array" ->
            Return([t |-> "list", has_data |-> FALSE, data |-> PyNone])
      [] ev.kind = "invalid" ->
            Raise("JSONDecodeError", <<"Expecting value: line 1 column 1 (char 0)">>)
      [] ev.kind = "None" ->
            Raise("TypeError",
                  <<"the JSON object must be str, bytes or bytearray, not NoneType">>)

\* x.get("data", {})
GetData(x) == IF x.has_data THEN x.data ELSE PyDict(<<>>)

\* Lines 172-176: the payload of the event, or the exception raised there.
Extracted(ev) ==
    IF ev.shape = "gateway"
    THEN LET body == json_loads(ev) IN
         IF body.raised THEN body
         ELSE IF body.value.t # "dict"
         THEN Raise("AttributeError", <<"'list' object has no attribute 'get'">>)
         ELSE Return(GetData(body.value))
    ELSE Return(GetData(ev))

\* MODEL.predict([features]): what the model may answer, one score per row.
ModelOutputs == {<<PyFloat(6505, 1)>>, <<PyInt(1)>>, <<>>}
ModelError == Raise("ValueError", <<"Input X contains NaN.">>)

\* MODEL.predict([features])[0] without float() around it.
PredictionUnconverted(out) ==
    IF Len(out) = 0
    THEN Raise("IndexError", <<"index 0 is out of bounds for axis 0 with size 0">>)
    ELSE Return(out[1])

\* float(MODEL.predict([features])[0])
PredictionOf(out) ==
    IF Len(out) = 0
    THEN Raise("IndexError", <<"index 0 is out of bounds for axis 0 with size 0">>)
    ELSE ToFloat(out[1])

\* json.dumps of the two bodies, as the JSON object it writes.
ErrorBody(exc) == << <<"error", PyStr(exc.msg)>> >>
SuccessBody(pred) == << <<"prediction", pred>>, <<"version", MODEL_INFO.version>> >>

Response(code, body) == [statusCode |-> code, body |-> body]

\* put_metric_data calls of one publish_metrics: the prediction, then one per item.
MetricCalls(d) == 1 + Len(d.items)

InitHandler ==
    /\ NormIdle
    /\ \E obj \in {NoObject, Object(<<>>)} : LogIdle(obj)
    /\ HandlerIdle("idle")

\* Lambda hands the environment its next event.
Invoke ==
    /\ hpc \in {"idle", "returned", "crashed"}
    /\ served < MaxEvents
    /\ \E ev \in Events : event' = ev
    /\ hpc' = "extract"
    /\ served' = served + 1
    /\ payload' = PyNone /\ features' = <<>> /\ output' = <<>>
    /\ prediction' = PyNone
    /\ sent' = 0 /\ response' = NoResponse
    /\ failure' = NoError /\ failedAt' = "none" /\ steps' = <<>>
    /\ wpc' = [wpc EXCEPT ![1] = "idle"]
    /\ werr' = [werr EXCEPT ![1] = NoError]
    /\ seen' = [seen EXCEPT ![1] = NotFetched]
    /\ header' = [header EXCEPT ![1] = <<>>]
    /\ rows' = [rows EXCEPT ![1] = <<>>]
    /\ UNCHANGED <<normVars, object, wdata, enriched, putLog>>

\* The exception `exc` leaves handler: the invocation ends without a response.
Escapes(exc, step) ==
    /\ failure' = exc
    /\ failedAt' = step
    /\ hpc' = "crashed"

\* Lines 181-187: the exception `exc` is answered with status 400.
Caught(exc, step) ==
    /\ failure' = exc
    /\ failedAt' = step
    /\ response' = Response(400, ErrorBody(exc))
    /\ hpc' = "returned"

\* Lines 172-176
Extract ==
    /\ hpc = "extract"
    /\ steps' = Append(steps, "extract")
    /\ LET x == Extracted(event) IN
       IF x.raised
       THEN Escapes(x, "extract") /\ UNCHANGED <<payload, response>>
       ELSE /\ payload' = x.value
            /\ hpc' = "normalize"
            /\ UNCHANGED <<response, failure, failedAt>>
    /\ UNCHANGED <<event, features, output, prediction, sent, served, normVars,
                   logVars>>

\* Line 179
Normalize ==
    /\ hpc = "normalize"
    /\ steps' = Append(steps, "normalize")
    /\ LET r == prepare_payload(payload) IN
       IF r.raised
       THEN Caught(r, "normalize") /\ UNCHANGED features
       ELSE /\ features' = r.value
            /\ hpc' = "infer"
            /\ UNCHANGED <<response, failure, failedAt>>
    /\ UNCHANGED <<event, payload, output, prediction, sent, served, normVars,
                   logVars>>

\* Line 180: the model answers.
Infer ==
    /\ hpc = "infer"
    /\ steps' = Append(steps, "infer")
    /\ \E out \in ModelOutputs :
          LET p == PredictionOf(out) IN
          /\ output' = out
          /\ IF p.raised
             THEN Caught(p, "infer") /\ UNCHANGED prediction
             ELSE /\ prediction' = p.value
                  /\ hpc' = "metrics"
                  /\ UNCHANGED <<response, failure, failedAt>>
    /\ UNCHANGED <<event, payload, features, sent, served, normVars, logVars>>

\* Line 180: the model raises.
InferFails ==
    /\ hpc = "infer"
    /\ steps' = Append(steps, "infer")
    /\ Caught(ModelError, "infer")
    /\ UNCHANGED <<event, payload, features, output, prediction, sent, served,
                   normVars, logVars>>

\* Lines 139-161: one put_metric_data call of publish_metrics.
PutMetric ==
    /\ hpc = "metrics"
    /\ sent < MetricCalls(payload)
    /\ steps' = Append(steps, "metric")
    /\ sent' = sent + 1
    /\ UNCHANGED <<event, hpc, payload, features, output, prediction, response, failure,
                   failedAt, served, normVars, logVars>>

\* A failing put_metric_data call caught and passed over: publish_metrics
\* goes on to its next call.
PutMetricFailureSwallowed ==
    /\ hpc = "metrics"
    /\ sent < MetricCalls(payload)
    /\ steps' = Append(steps, "metric failed")
    /\ sent' = sent + 1
    /\ failure' = ClientError("PutMetricData")
    /\ failedAt' = "metrics"
    /\ UNCHANGED <<event, hpc, payload, features, output, prediction, response,
                   served, normVars, logVars>>

\* Lines 139-161: a put_metric_data call fails.
PutMetricFails ==
    /\ hpc = "metrics"
    /\ sent < MetricCalls(payload)
    /\ steps' = Append(steps, "metric failed")
    /\ Escapes(ClientError("PutMetricData"), "metrics")
    /\ UNCHANGED <<event, payload, features, output, prediction, sent, response, served,
                   normVars, logVars>>

\* Line 190: publish_metrics returned; write_real_data_to_s3 is called.
Audit ==
    /\ hpc = "metrics"
    /\ sent = MetricCalls(payload)
    /\ \E timestamp \in Timestamps :
          /\ NotBefore(enriched[1], timestamp)
          /\ StartWrite(1, payload.items, prediction, timestamp)
    /\ hpc' = "audit"
    /\ steps' = Append(steps, "audit")
    /\ UNCHANGED <<event, payload, features, output, prediction, sent, response, failure,
                   failedAt, served, normVars>>

AuditStep(step) ==
    /\ hpc = "audit"
    /\ steps' = Append(steps, step)
    /\ UNCHANGED <<event, hpc, payload, features, output, prediction, sent, response,
                   failure, failedAt, served, normVars>>

AuditGet == GetObject(1) /\ AuditStep("get_object")
AuditGetFails == GetObjectFails(1) /\ AuditStep("get_object failed")
AuditPut == PutObject(1) /\ AuditStep("put_object")
AuditPutFails == PutObjectFails(1) /\ AuditStep("put_object failed")

\* write_real_data_to_s3 raised: nothing in handler catches it.
AuditRaised ==
    /\ hpc = "audit"
    /\ wpc[1] = "raised"
    /\ Escapes(werr[1], "audit")
    /\ UNCHANGED <<event, payload, features, output, prediction, sent, response, steps,
                   served, normVars, logVars>>

\* Lines 192-201
Respond ==
    /\ hpc = "audit"
    /\ wpc[1] = "done"
    /\ steps' = Append(steps, "respond")
    /\ response' = Response(200, SuccessBody(prediction))
    /\ hpc' = "returned"
    /\ UNCHANGED <<event, payload, features, output, prediction, sent, failure, failedAt,
                   served, normVars, logVars>>

Next ==
    \/ Invoke \/ Extract \/ Normalize \/ Infer \/ InferFails
    \/ PutMetric \/ PutMetricFails \/ Audit
    \/ AuditGet \/ AuditGetFails \/ AuditPut \/ AuditPutFails
    \/ AuditRaised \/ Respond

Spec == InitHandler /\ [][Next]_vars

\* ------------------------------------------------ claims: prepare_payload

\* The value is no str, or a str that float() (with ".") or int() accepts.
Parseable(value) ==
    IF IsStr(value)
    THEN (IF HasDot(value.s) THEN ~float(value.s).raised ELSE ~int(value.s).raised)
    ELSE TRUE

\* What the claim says the entry for a value is.
Coerced(value) ==
    IF IsStr(value)
    THEN (IF HasDot(value.s) THEN float(value.s).value ELSE int(value.s).value)
    ELSE value

IsRecord(d) == d.t = "dict"
MissingPositions(d) == {i \in Positions : ~HasKey(d.items, FEATURE_ORDER[i])}
FirstMissing(d) ==
    CHOOSE i \in MissingPositions(d) : \A j \in MissingPositions(d) : i <= j
Complete(d) == IsRecord(d) /\ MissingPositions(d) = {}
AllParseable(d) ==
    \A i \in Positions \ MissingPositions(d) :
        Parseable(GetItem(d.items, FEATURE_ORDER[i]))
\* The FEATURE_ORDER positions before `last` whose value no parse accepts.
BadBefore(d, last) ==
    {i \in 1..(last - 1) :
        LET v == GetItem(d.items, FEATURE_ORDER[i]) IN IsStr(v) /\ ~Parseable(v)}

\* C5: for a record that holds every FEATURE_ORDER key with a parseable value,
\* in whatever order and with whatever extra keys, prepare_payload returns
\* len(FEATURE_ORDER) entries, the i-th being the value at the i-th
\* FEATURE_ORDER key: a str with "." as a float, another str as an int, a
\* number as it is.
C5_OrderAndCoercion ==
    (npc = "done" /\ Complete(data) /\ AllParseable(data)) =>
        /\ ~result.raised
        /\ Len(result.value) = Len(FEATURE_ORDER)
        /\ \A i \in Positions :
              result.value[i] = Coerced(GetItem(data.items, FEATURE_ORDER[i]))

\* C5's case: a complete record in another order than FEATURE_ORDER, with a
\* str holding "." among its values, was normalised.
C5_Witness ==
    /\ npc = "done" /\ Complete(data) /\ AllParseable(data)
    /\ Keys(data.items) # FEATURE_ORDER
    /\ \E i \in Positions :
          LET v == GetItem(data.items, FEATURE_ORDER[i]) IN
          IsStr(v) /\ HasDot(v.s) /\ result.value[i].t = "float"

\* C6 as written: for a record that lacks a FEATURE_ORDER key, prepare_payload
\* raises the error naming the first missing key in FEATURE_ORDER order.
C6_AsClaimed ==
    (npc = "done" /\ IsRecord(data) /\ MissingPositions(data) # {}) =>
        result = MissingFeature(FEATURE_ORDER[FirstMissing(data)])

\* C6, amended: for a record that lacks a FEATURE_ORDER key, prepare_payload
\* raises and returns no vector; the error names the first missing key in
\* FEATURE_ORDER order when every key before it holds a value that is no str
\* or a str that parses, and is the ValueError of int() or float() for the
\* first str before it that does not parse otherwise.  The empty record yields
\* "Feature 'Age' missing from payload.".
C6_MissingKey ==
    /\ (npc = "done" /\ IsRecord(data) /\ MissingPositions(data) # {}) =>
          LET first == FirstMissing(data)
              bad == BadBefore(data, first)
          IN  /\ result.raised
              /\ bad = {} => result = MissingFeature(FEATURE_ORDER[first])
              /\ bad # {} =>
                    LET b == CHOOSE i \in bad : \A j \in bad : i <= j
                        v == GetItem(data.items, FEATURE_ORDER[b])
                    IN  result = IF HasDot(v.s) THEN float(v.s) ELSE int(v.s)
    /\ (npc = "done" /\ data = PyDict(<<>>)) =>
          /\ result.cls = "ValueError"
          /\ result.msg = <<"Feature '", "Age", "' missing from payload.">>

\* C6's case: a record that lacks a key other than the first was rejected
\* with the error naming that key.
C6_Witness ==
    /\ npc = "done" /\ IsRecord(data) /\ MissingPositions(data) # {}
    /\ FirstMissing(data) > 1
    /\ result = MissingFeature(FEATURE_ORDER[FirstMissing(data)])

\* ------------------------------------------ claims: write_real_data_to_s3

\* The lines a reader of the object finds: header first, then the data rows.
LinesOf(obj) == splitlines(obj.body)

PutBy(w) == \E i \in DOMAIN putLog : putLog[i].w = w

\* The put ran with no other put between its own get_object and itself.
NotInterleaved(e) == e.before = e.seen

\* C1: when two calls fetched the same state of the log before either wrote,
\* and both wrote, the log then holds the rows of that state and, after them,
\* the row of the call that wrote last, and no other row.
C1_LostUpdate ==
    \A i \in DOMAIN putLog : \A j \in DOMAIN putLog :
        LET a == putLog[i]
            b == putLog[j]
        IN  (j = i + 1 /\ a.w # b.w /\ a.seen = b.seen /\ a.before = a.seen
                /\ b.before = a.after /\ object = b.after) =>
                LinesOf(object) =
                    (IF b.seen.exists THEN LinesOf(b.seen)
                     ELSE <<HeaderOf(b.enriched)>>) \o <<RowOf(b.enriched)>>

\* C2: one call that is not interleaved with another, on a log with a header
\* and N rows, leaves the same header and N + 1 rows: the N rows as they were
\* and in their order, then the comma-joined values of the enriched record.
C2_SubsequentWrite ==
    \A i \in DOMAIN putLog :
        LET e == putLog[i] IN
        (e.seen.exists /\ NotInterleaved(e)) =>
            LinesOf(e.after) = LinesOf(e.before) \o <<RowOf(e.enriched)>>

\* C3: a call whose get_object met NoSuchKey creates a log of two lines: the
\* comma-joined keys of data, in their order, followed by
\* credit_score_prediction, timestamp and model_version; and the one row of
\* the enriched record's values in the same order.
C3_FirstWrite ==
    \A i \in DOMAIN putLog :
        LET e == putLog[i] IN
        ~e.seen.exists =>
            LinesOf(e.after) =
                << Join(COMMA, [k \in 1..(Len(e.data) + 3) |->
                        IF k <= Len(e.data) THEN <<e.data[k][1]>>
                        ELSE <<S3_KEYS[k - Len(e.data)]>>]),
                   RowOf(e.enriched) >>

\* C4: once a call has created the log of the day, the first line of the log
\* is the comma-joined keys of that call's enriched record, whatever calls
\* follow and however they interleave.
C4_HeaderStable ==
    (Len(putLog) > 0 /\ ~putLog[1].before.exists) =>
        Head(LinesOf(object)) = HeaderOf(putLog[1].enriched)

\* C9: a call whose get_object returned an object without lines raises the
\* ValueError "Empty file retrieved from S3" and puts nothing, so the object
\* stays as it was; a call that goes on to put_object holds the header and
\* rows of the object it fetched, and a header of its own only after
\* NoSuchKey; a call whose get_object failed otherwise puts nothing.
C9_EmptyLogFails ==
    \A w \in Writers :
        /\ (seen[w].fetched /\ seen[w].obj.exists /\ LinesOf(seen[w].obj) = <<>>) =>
              /\ wpc[w] = "raised"
              /\ werr[w] = EmptyFile
              /\ ~PutBy(w)
              /\ object = seen[w].obj
        /\ (wpc[w] = "put" /\ seen[w].obj.exists) =>
              <<header[w]>> \o rows[w] = LinesOf(seen[w].obj)
        /\ (wpc[w] = "put" /\ ~seen[w].obj.exists) =>
              header[w] = HeaderOf(enriched[w]) /\ rows[w] = <<>>
        /\ (wpc[w] = "raised" /\ werr[w] = ClientError("GetObject")) => ~PutBy(w)

\* C9's case: a call fetched the object without content and raised.
C9_Witness ==
    \E w \in Writers :
        /\ seen[w].fetched /\ seen[w].obj = Object(<<>>)
        /\ wpc[w] = "raised" /\ werr[w] = EmptyFile
        /\ object = Object(<<>>)

\* --------------------------------------------------------- claims: handler

Ended == hpc \in {"returned", "crashed"}
Did(step) == \E i \in DOMAIN steps : steps[i] = step
Count(step) == Cardinality({i \in DOMAIN steps : steps[i] = step})

\* C7: an exception raised while the payload is extracted, normalised or
\* scored ends the invocation with status 400 and the body {"error": message};
\* none leaves handler.
C7_FailureIs400 ==
    (Ended /\ failedAt \in {"extract", "normalize", "infer"}) =>
        /\ hpc = "returned"
        /\ response = Response(400, << <<"error", PyStr(failure.msg)>> >>)

\* A direct invocation whose data holds every FEATURE_ORDER key with a number
\* or a str that parses.
WellFormed(ev) ==
    /\ ev.shape = "direct" /\ ev.has_data /\ Complete(ev.data)
    /\ \A i \in Positions :
          LET v == GetItem(ev.data.items, FEATURE_ORDER[i]) IN
          IF IsStr(v) THEN Parseable(v) ELSE v.t \in {"int", "float"}

\* C8: a direct invocation with well-formed data, in which the model and both
\* side effects raise nothing, returns status 200 with the body
\* {"prediction": p, "version": v}: p the float of the first element of the
\* model's answer, v the version of the loaded metadata.
C8_Success ==
    (Ended /\ WellFormed(event) /\ failure = NoError) =>
        /\ hpc = "returned"
        /\ response.statusCode = 200
        /\ Keys(response.body) = <<"prediction", "version">>
        /\ LET p == GetItem(response.body, "prediction") IN
           /\ p.t = "float"
           /\ Len(output) > 0
           /\ p = (IF output[1].t = "int" THEN PyFloat(output[1].v, 0) ELSE output[1])
        /\ GetItem(response.body, "version") = MODEL_INFO.version

\* C8's case: a well-formed direct invocation whose model answered with an
\* integer was answered with status 200.
C8_Witness ==
    /\ Ended /\ WellFormed(event) /\ failure = NoError
    /\ response.statusCode = 200
    /\ output = <<PyInt(1)>>
    /\ \E i \in Positions : IsStr(GetItem(event.data.items, FEATURE_ORDER[i]))

Rank(step) ==
    CASE step = "extract" -> 1
      [] step = "normalize" -> 2
      [] step = "infer" -> 3
      [] step \in {"metric", "metric failed"} -> 4
      [] step = "audit" -> 5
      [] step \in {"get_object", "get_object failed"} -> 6
      [] step \in {"put_object", "put_object failed"} -> 7
      [] step = "respond" -> 8

FailedSteps == {"metric failed", "get_object failed", "put_object failed"}
SideEffects ==
    {"metric", "metric failed", "audit", "get_object", "get_object failed",
     "put_object", "put_object failed"}

\* C10: the steps of an invocation come in the order normalise, infer,
\* metrics, audit log, response 200, each only after the ones before it ended
\* without an exception: status 400 follows no metrics call and no log access,
\* a failed metrics call is followed by no log access, and status 200 follows
\* the put_object of the audit log; an exception of a side effect leaves
\* handler and no response is returned.
C10_StepOrder ==
    /\ \A i \in DOMAIN steps : \A j \in DOMAIN steps :
          i < j => \/ Rank(steps[i]) < Rank(steps[j])
                   \/ steps[i] = "metric" /\ steps[j] \in {"metric", "metric failed"}
    /\ \A i \in DOMAIN steps : steps[i] \in FailedSteps => i = Len(steps)
    /\ \A i \in DOMAIN steps : i > 1 => Rank(steps[i]) <= Rank(steps[i - 1]) + 1
    /\ Did("audit") => Count("metric") = MetricCalls(payload)
    /\ failedAt \in {"normalize", "infer"} => \A i \in DOMAIN steps : Rank(steps[i]) <= 3
    /\ response.statusCode = 400 => \A i \in DOMAIN steps : steps[i] \notin SideEffects
    /\ failedAt = "metrics" =>
          /\ ~Did("audit") /\ ~Did("get_object") /\ ~Did("put_object")
          /\ hpc = "crashed"
    /\ response.statusCode = 200 =>
          /\ Did("put_object") /\ steps[Len(steps)] = "respond"
          /\ failure = NoError
          /\ Len(putLog) > 0 /\ object = putLog[Len(putLog)].after
          /\ putLog[Len(putLog)].data = payload.items
    /\ hpc = "crashed" => response = NoResponse

\* C10's case: an invocation went through every step and returned status 200.
C10_Witness ==
    /\ response.statusCode = 200
    /\ Count("metric") = MetricCalls(payload)
    /\ Did("put_object")

==========================================================================
